---- MODULE Spec2Model ----
(***************************************************************************)
(* SmartPark front-end: occupancy aggregation (MapView, Dashboard) and the *)
(* reservation / cancellation workflow (Dashboard, SlotGrid, Profile) over *)
(* the hosted backend tables `slots` and `reservations`.                   *)
(*                                                                         *)
(* Three specifications share the variables:                               *)
(*   SpecAgg   the aggregator applied to bounded slot sets and capacities; *)
(*   Spec      one user's Dashboard and Profile, the backend, the sensors; *)
(*   SpecRace  the Dashboards of two users against the same backend.       *)
(***************************************************************************)
EXTENDS Integers, Sequences, FiniteSets

VARIABLES
    \* ---- aggregator (SpecAgg) ----
    aggArea,            \* the parking_areas row being aggregated: [total_slots]
    aggSlotsData,       \* `data` of the slots query: None (null) or Some(rows)
    aggSlotsError,      \* `error` of the slots query
    areaWithOccupancy,  \* MapView: the element of areasWithOccupancy, or NotComputed
    occupancyData,      \* Dashboard: occupancyData, or NotComputed
    occupancyColor,     \* MapTilerMap: the marker's occupancyColor ("" = not rendered)
    \* ---- reservation workflow (Spec) ----
    slotStatus,         \* backend table slots: slot id -> status
    reservations,       \* backend table reservations: sequence of rows, index = id
    slots,              \* Dashboard state `slots`, per user
    userReservations,   \* Dashboard state `userReservations`, per user
    reserveSlotId,      \* Dashboard state `reserveSlotId`, per user ("" = none)
    selectedSlotNumber, \* Dashboard state `selectedSlotNumber`, per user
    confirmCalls,       \* in-flight handleConfirmReservation calls, per user and slot
    profileReservations,\* Profile state `reservations`, per user
    cancelCalls,        \* in-flight handleCancelReservation calls, per user
    toast,              \* the toast the last step raised, per user ("" = none)
    \* ---- system status monitor (SpecMon) ----
    monSystemId,        \* prop systemId of SystemStatusIndicator (Undefined = absent)
    monMounted,         \* the component is mounted
    systemStatus,       \* state `systemStatus`: None (null) or Some(row)
    statusLevel,        \* state `statusLevel`
    lastSeenText,       \* state `lastSeenText`
    monFetches,         \* fetchSystemStatus calls awaiting their response (targets)
    monChannels,        \* live system-status channels: target -> number subscribed
    monNotes,           \* change notifications not yet delivered
    systemRows,         \* backend table system_status: system_id -> None or Some(row)
    now,                \* the clock, in minutes
    \* ---- map markers (SpecMarker) ----
    mkClickCount,       \* closure variable clickCount of each marker on the map
    mkClickTimeout,     \* closure variable clickTimeout: "null" or "handle"
    mkTimerPending,     \* the marker's 300 ms timer is scheduled
    mkStale,            \* markers of the removed layer whose timer is still scheduled
    mkPopups,           \* marker.openPopup() calls, per area
    mkNavigations,      \* onAreaSelect calls, per area
    \* ---- screens and their subscriptions (SpecScreens) ----
    dashMounted,        \* the Dashboard is mounted
    selectedAreaId,     \* Dashboard state `selectedAreaId` ("" = none)
    dashSlots,          \* Dashboard state `slots`, rows with their parking_area_id
    dashFetches,        \* fetchSlots calls awaiting their response (areas)
    screenToast,        \* the toast the last step of a screen raised ("" = none)
    mapMounted,         \* the MapView is mounted
    mapFetches,         \* fetchParkingAreasWithOccupancy calls in flight
    mapLoading,         \* MapView state `loading`
    parkingAreasWithOccupancy, \* MapView state: << >> ([]) or area -> record
    profMounted,        \* the Profile is mounted
    profReservations,   \* Profile state `reservations` of this screen
    profFetching,       \* Profile's fetchReservations is in flight
    channels,           \* live realtime channels: name -> number subscribed
    areaStatus          \* backend table slots: area -> status of its slot

aggVars == <<aggArea, aggSlotsData, aggSlotsError, areaWithOccupancy, occupancyData,
             occupancyColor>>
backendVars == <<slotStatus, reservations>>
dashVars == <<slots, userReservations, reserveSlotId, selectedSlotNumber, confirmCalls>>
profileVars == <<profileReservations, cancelCalls>>
flowVars == <<backendVars, dashVars, profileVars, toast>>
monVars == <<monSystemId, monMounted, systemStatus, statusLevel, lastSeenText,
             monFetches, monChannels, monNotes, systemRows, now>>
\* The variables of the other screens, as the aggregator and the workflow see them
markerVars == <<mkClickCount, mkClickTimeout, mkTimerPending, mkStale, mkPopups,
                mkNavigations>>
mapVars == <<mapMounted, mapFetches, mapLoading, parkingAreasWithOccupancy>>
profVars == <<profMounted, profReservations, profFetching>>
screenVars == <<dashMounted, selectedAreaId, dashSlots, dashFetches, screenToast,
                mapVars, profVars, channels, areaStatus>>
extVars == <<monVars, markerVars, screenVars>>
vars == <<aggVars, flowVars, extVars>>
\* What the status monitor leaves alone
notMonVars == <<aggVars, flowVars, markerVars, screenVars>>
\* What the map markers leave alone
notMarkerVars == <<aggVars, flowVars, monVars, screenVars>>
\* What the screens leave alone
notScreenVars == <<aggVars, flowVars, markerVars>>

----------------------------------------------------------------------------
(* Bounds of the model *)

MaxLen == 3          \* longest slot list enumerated status by status
MaxFree == 6         \* slot lists built from counts: free slots
MaxOccupied == 3     \*   occupied slots
MaxReserved == 1     \*   reserved slots
MaxTotal == 10       \* largest declared total_slots
MaxReservations == 1 \* rows the reservations table grows to under Spec
MaxRaceReservations == 2 \* the same, under SpecRace, SpecConfirm, SpecProfile
MaxInFlight == 1     \* handleConfirmReservation calls a user has in flight
MaxConfirmsInFlight == 2 \* the same, under SpecConfirm
MaxNotes == 1        \* system_status change notifications in flight
MaxGestures == 2     \* popups and navigations counted per marker
MaxMapFetches == 2   \* fetchParkingAreasWithOccupancy calls in flight

----------------------------------------------------------------------------
(* Values *)

None == << >>
Some(v) == <<v>>

\* The statuses the schema declares, one value outside it, and a missing one.
KnownStatuses == {"free", "occupied", "reserved"}
AnyStatuses == KnownStatuses \cup {"maintenance", "null"}

NotComputed == [computed |-> FALSE]

RECURSIVE Repeat(_, _)
Repeat(v, n) == IF n = 0 THEN << >> ELSE <<v>> \o Repeat(v, n - 1)

SeqsUpTo(S, n) == UNION {[1..k -> S] : k \in 0..n}

\* A filter that also takes rows of no declared status as occupied
FilterLengthUnknownAsOccupied(rows, status) ==
    Len(SelectSeq(rows, LAMBDA s : \/ s.status = status
                                   \/ /\ status = "occupied"
                                      /\ s.status \notin {"free", "reserved"}))

\* A filter that takes rows of no declared status as free
FilterLengthUnknownAsFree(rows, status) ==
    Len(SelectSeq(rows, LAMBDA s : \/ s.status = status
                                   \/ /\ status = "free"
                                      /\ s.status \notin {"occupied", "reserved"}))

\* Array.prototype.filter(...).length
FilterLength(rows, status) == Len(SelectSeq(rows, LAMBDA s : s.status = status))

\* `x || 0` on a number or null
OrZero(opt) == IF opt = None THEN 0 ELSE opt[1]

\* `slots?.filter(s => s.status === status).length || 0`
CountStatus(data, status) == IF data = None THEN 0 ELSE FilterLength(data[1], status)

----------------------------------------------------------------------------
(* Occupancy aggregator *)

\* The percentage is kept as the exact fraction num/den.  The double the code
\* computes, (k / total) * 100, is that fraction rounded twice; it compares
\* with 0, 50, 80 and 100 exactly as the fraction does.
Pct(num, den) == [num |-> num, den |-> den]
PctEq(p, n) == p.num = n * p.den
PctLeq(p, n) == p.num <= n * p.den
PctGeq(p, n) == p.num >= n * p.den

\* The percentage without the reserved slots
OccupancyPercentageOccupiedOnly(occupiedSlots, reservedSlots, totalSlots) ==
    IF totalSlots > 0
    THEN Pct(occupiedSlots * 100, totalSlots)
    ELSE Pct(0, 1)

\* The percentage guarded by totalSlots >= 0: a division by zero at capacity 0
OccupancyPercentageDivByZero(occupiedSlots, reservedSlots, totalSlots) ==
    IF totalSlots >= 0
    THEN Pct((occupiedSlots + reservedSlots) * 100, totalSlots)
    ELSE Pct(0, 1)

OccupancyPercentage(occupiedSlots, reservedSlots, totalSlots) ==
    IF totalSlots > 0
    THEN Pct((occupiedSlots + reservedSlots) * 100, totalSlots)
    ELSE Pct(0, 1)

\* MapView.fetchParkingAreasWithOccupancy: the body of areas.map(async area => ...)
WithOccupancy(area, data, error) ==
    IF error
    THEN [computed |-> TRUE, freeSlots |-> 0, occupiedSlots |-> 0,
          reservedSlots |-> 0, occupancyPercentage |-> Pct(0, 1)]
    ELSE LET freeSlots == CountStatus(data, "free")
             occupiedSlots == CountStatus(data, "occupied")
             reservedSlots == CountStatus(data, "reserved")
             totalSlots == OrZero(area.total_slots)
         IN  [computed |-> TRUE, freeSlots |-> freeSlots,
              occupiedSlots |-> occupiedSlots, reservedSlots |-> reservedSlots,
              occupancyPercentage |->
                  OccupancyPercentage(occupiedSlots, reservedSlots, totalSlots)]

PctGt(p, n) == p.num > n * p.den

Red == "#EF4444"
Amber == "#F59E0B"
Green == "#10B981"

\* occupancyColor with the red threshold inclusive
OccupancyColorInclusive(occupancyPercentage) ==
    IF PctGeq(occupancyPercentage, 80) THEN Red
    ELSE IF PctGt(occupancyPercentage, 50) THEN Amber ELSE Green

\* occupancyColor of a marker
OccupancyColor(occupancyPercentage) ==
    IF PctGt(occupancyPercentage, 80) THEN Red
    ELSE IF PctGt(occupancyPercentage, 50) THEN Amber ELSE Green

\* Dashboard.occupancyData over the Dashboard's `slots` (always an array)
OccupancyData(rows) ==
    [computed |-> TRUE,
     free |-> FilterLength(rows, "free"),
     occupied |-> FilterLength(rows, "occupied"),
     reserved |-> FilterLength(rows, "reserved")]

\* A slots row as the aggregator reads it
Row(status) == [status |-> status]

SlotLists ==
    SeqsUpTo({Row(st) : st \in AnyStatuses}, MaxLen)
    \cup {Repeat(Row("free"), f) \o Repeat(Row("occupied"), o)
              \o Repeat(Row("reserved"), r) :
              f \in 0..MaxFree, o \in 0..MaxOccupied, r \in 0..MaxReserved}

TotalSlotsValues == {None} \cup {Some(n) : n \in -1..MaxTotal}

\* The workflow variables as the aggregator specification holds them
FlowIdle ==
    /\ slotStatus = << >>
    /\ reservations = << >>
    /\ slots = << >>
    /\ userReservations = << >>
    /\ reserveSlotId = << >>
    /\ selectedSlotNumber = << >>
    /\ confirmCalls = << >>
    /\ profileReservations = << >>
    /\ cancelCalls = << >>
    /\ toast = << >>

\* The status monitor's variables as the other specifications hold them
MonIdle ==
    /\ monSystemId = ""
    /\ monMounted = FALSE
    /\ systemStatus = << >>
    /\ statusLevel = "critical"
    /\ lastSeenText = ""
    /\ monFetches = {}
    /\ monChannels = << >>
    /\ monNotes = << >>
    /\ systemRows = << >>
    /\ now = 0

\* The map markers' variables as the other specifications hold them
MarkerIdle ==
    /\ mkClickCount = << >>
    /\ mkClickTimeout = << >>
    /\ mkTimerPending = << >>
    /\ mkStale = {}
    /\ mkPopups = << >>
    /\ mkNavigations = << >>

\* The screens' variables as the other specifications hold them
ScreensIdle ==
    /\ dashMounted = FALSE
    /\ selectedAreaId = ""
    /\ dashSlots = << >>
    /\ dashFetches = {}
    /\ screenToast = ""
    /\ mapMounted = FALSE
    /\ mapFetches = 0
    /\ mapLoading = TRUE
    /\ parkingAreasWithOccupancy = << >>
    /\ profMounted = FALSE
    /\ profReservations = << >>
    /\ profFetching = FALSE
    /\ channels = << >>
    /\ areaStatus = << >>

ExtIdle == MonIdle /\ MarkerIdle /\ ScreensIdle

InitAgg ==
    /\ ExtIdle
    /\ aggArea \in {[total_slots |-> t] : t \in TotalSlotsValues}
    /\ aggSlotsError \in BOOLEAN
    /\ aggSlotsData \in (IF aggSlotsError THEN {None}
                         ELSE {None} \cup {Some(l) : l \in SlotLists})
    /\ areaWithOccupancy = NotComputed
    /\ occupancyData = NotComputed
    /\ occupancyColor = ""
    /\ FlowIdle

\* MapView: one area of fetchParkingAreasWithOccupancy is aggregated
MapViewAggregate ==
    /\ areaWithOccupancy = NotComputed
    /\ areaWithOccupancy' = WithOccupancy(aggArea, aggSlotsData, aggSlotsError)
    /\ UNCHANGED <<aggArea, aggSlotsData, aggSlotsError, occupancyData, occupancyColor,
                   flowVars, extVars>>

\* Dashboard: fetchSlots stored the rows (`else if (data)`), the render derives
\* occupancyData from them
DashboardAggregate ==
    /\ occupancyData = NotComputed
    /\ ~aggSlotsError
    /\ aggSlotsData # None
    /\ occupancyData' = OccupancyData(aggSlotsData[1])
    /\ UNCHANGED <<aggArea, aggSlotsData, aggSlotsError, areaWithOccupancy,
                   occupancyColor, flowVars, extVars>>

\* MapTilerMap: the markers effect renders the aggregated area's marker
MarkerRender ==
    /\ areaWithOccupancy # NotComputed
    /\ occupancyColor = ""
    /\ occupancyColor' = OccupancyColor(areaWithOccupancy.occupancyPercentage)
    /\ UNCHANGED <<aggArea, aggSlotsData, aggSlotsError, areaWithOccupancy,
                   occupancyData, flowVars, extVars>>

NextAgg == MapViewAggregate \/ DashboardAggregate \/ MarkerRender

SpecAgg == InitAgg /\ [][NextAgg]_vars

----------------------------------------------------------------------------
(* Reservation workflow: backend tables *)

Users == {"u1", "u2"}
SlotIds == {"s1", "s2"}

\* The slots of the selected area in slot_number order
SlotOrder == <<"s1", "s2">>

\* from('slots').select('*').eq('parking_area_id', ...).order('slot_number')
SelectSlots ==
    [i \in DOMAIN SlotOrder |->
        [id |-> SlotOrder[i], slot_number |-> i, status |-> slotStatus[SlotOrder[i]]]]

RECURSIVE Reverse(_)
Reverse(s) == IF s = << >> THEN << >> ELSE Reverse(Tail(s)) \o <<Head(s)>>

\* from('reservations').select(...).eq('user_id', user.id)
\*     .order('created_at', { ascending: false })
SelectReservations(u) ==
    LET rows == [i \in DOMAIN reservations |->
                    [id |-> i, user_id |-> reservations[i].user_id,
                     slot_id |-> reservations[i].slot_id,
                     status |-> reservations[i].status]]
    IN  Reverse(SelectSeq(rows, LAMBDA r : r.user_id = u))

\* from('reservations').insert({user_id, slot_id, ..., status: 'active'})
InsertReservation(u, s) ==
    Append(reservations, [user_id |-> u, slot_id |-> s, status |-> "active"])

\* from('slots').update({ status }).eq('id', slotId)
UpdateSlot(s, status) == [slotStatus EXCEPT ![s] = status]

\* from('reservations').update({ status: 'cancelled' }).eq('id', reservationId)
UpdateReservation(id, status) == [reservations EXCEPT ![id].status = status]

NoToast == [u \in Users |-> ""]
Show(u, message) == [NoToast EXCEPT ![u] = message]

NoCalls == [insert |-> 0, update |-> 0]
InFlight(u) ==
    LET n(s) == confirmCalls[u][s].insert + confirmCalls[u][s].update
    IN  n("s1") + n("s2")

InitFlow ==
    /\ slotStatus \in [SlotIds -> {"free", "occupied"}]
    /\ reservations = << >>
    /\ slots = [u \in Users |-> << >>]
    /\ userReservations = [u \in Users |-> << >>]
    /\ reserveSlotId = [u \in Users |-> ""]
    /\ selectedSlotNumber = [u \in Users |-> 0]
    /\ confirmCalls = [u \in Users |-> [s \in SlotIds |-> NoCalls]]
    /\ profileReservations = [u \in Users |-> << >>]
    /\ cancelCalls = [u \in Users |-> {}]
    /\ toast = NoToast

AggIdle ==
    /\ aggArea = [total_slots |-> None]
    /\ aggSlotsData = None
    /\ aggSlotsError = FALSE
    /\ areaWithOccupancy = NotComputed
    /\ occupancyData = NotComputed
    /\ occupancyColor = ""

Init == InitFlow /\ AggIdle /\ ExtIdle

----------------------------------------------------------------------------
(* Dashboard *)

\* fetchSlots resolves (initial fetch, or the re-fetch a change notification
\* starts): the query reads the table and the response is stored in one step.
FetchSlots(u, ok) ==
    /\ slots[u] # SelectSlots
    /\ IF ok
       THEN /\ slots' = [slots EXCEPT ![u] = SelectSlots]
            /\ toast' = NoToast
       ELSE /\ toast' = Show(u, "Failed to load slots")
            /\ UNCHANGED slots
    /\ UNCHANGED <<aggVars, extVars, backendVars, userReservations, reserveSlotId,
                   selectedSlotNumber, confirmCalls, profileVars>>

\* A slot button that opens the dialog whatever the slot's status
ClickSlotAnyStatus(u, i) ==
    /\ i \in DOMAIN slots[u]
    /\ reserveSlotId[u] = ""
    /\ reserveSlotId' = [reserveSlotId EXCEPT ![u] = slots[u][i].id]
    /\ selectedSlotNumber' = [selectedSlotNumber EXCEPT ![u] = slots[u][i].slot_number]
    /\ toast' = NoToast
    /\ UNCHANGED <<aggVars, extVars, backendVars, slots, userReservations, confirmCalls,
                   profileVars>>

\* SlotGrid button of the i-th slot shown: disabled unless free, and the click
\* handler runs onReserveSlot only for a free slot.
\* handleReserveSlot: find the slot in `slots`, open the dialog on it.
ClickSlot(u, i) ==
    /\ i \in DOMAIN slots[u]
    /\ reserveSlotId[u] = ""
    /\ LET slot == slots[u][i]
       IN  IF slot.status = "free"
           THEN /\ reserveSlotId' = [reserveSlotId EXCEPT ![u] = slot.id]
                /\ selectedSlotNumber' =
                       [selectedSlotNumber EXCEPT ![u] = slot.slot_number]
           ELSE UNCHANGED <<reserveSlotId, selectedSlotNumber>>
    /\ toast' = NoToast
    /\ UNCHANGED <<aggVars, extVars, backendVars, slots, userReservations, confirmCalls,
                   profileVars>>

\* ReserveSlotDialog onClose
CloseDialog(u) ==
    /\ reserveSlotId[u] # ""
    /\ reserveSlotId' = [reserveSlotId EXCEPT ![u] = ""]
    /\ toast' = NoToast
    /\ UNCHANGED <<aggVars, extVars, backendVars, slots, userReservations,
                   selectedSlotNumber, confirmCalls, profileVars>>

\* handleConfirmReservation up to its first await: the reservation insert for
\* the selected slot is issued.
ConfirmStart(u) ==
    /\ reserveSlotId[u] # ""
    /\ confirmCalls' = [confirmCalls EXCEPT ![u][reserveSlotId[u]].insert = @ + 1]
    /\ toast' = NoToast
    /\ UNCHANGED <<aggVars, extVars, backendVars, slots, userReservations, reserveSlotId,
                   selectedSlotNumber, profileVars>>

\* The insert returns; on error the toast is raised but the handler goes on to
\* the slot update (the else branch lost).
ConfirmInsertDoneNoAbort(u, s, ok) ==
    /\ confirmCalls[u][s].insert > 0
    /\ reservations' = IF ok THEN InsertReservation(u, s) ELSE reservations
    /\ toast' = IF ok THEN NoToast ELSE Show(u, "Failed to create reservation")
    /\ confirmCalls' = [confirmCalls EXCEPT ![u][s].insert = @ - 1,
                                             ![u][s].update = @ + 1]
    /\ UNCHANGED <<aggVars, extVars, slotStatus, slots, userReservations, reserveSlotId,
                   selectedSlotNumber, profileVars>>

\* The insert returns.  On error: toast, nothing else.  Otherwise the slot
\* update is issued (second await).
ConfirmInsertDone(u, s, ok) ==
    /\ confirmCalls[u][s].insert > 0
    /\ IF ok
       THEN /\ reservations' = InsertReservation(u, s)
            /\ confirmCalls' = [confirmCalls EXCEPT ![u][s].insert = @ - 1,
                                                     ![u][s].update = @ + 1]
            /\ toast' = NoToast
       ELSE /\ toast' = Show(u, "Failed to create reservation")
            /\ confirmCalls' = [confirmCalls EXCEPT ![u][s].insert = @ - 1]
            /\ UNCHANGED reservations
    /\ UNCHANGED <<aggVars, extVars, slotStatus, slots, userReservations, reserveSlotId,
                   selectedSlotNumber, profileVars>>

\* The slot update returns and its error is read: error toast, no local update.
ConfirmUpdateDoneChecked(u, s, ok) ==
    /\ confirmCalls[u][s].update > 0
    /\ confirmCalls' = [confirmCalls EXCEPT ![u][s].update = @ - 1]
    /\ IF ok
       THEN /\ slotStatus' = UpdateSlot(s, "reserved")
            /\ toast' = Show(u, "Slot reserved successfully!")
            /\ reserveSlotId' = [reserveSlotId EXCEPT ![u] = ""]
            /\ userReservations' = [userReservations EXCEPT ![u] = Append(@, s)]
       ELSE /\ toast' = Show(u, "Failed to create reservation")
            /\ UNCHANGED <<slotStatus, reserveSlotId, userReservations>>
    /\ UNCHANGED <<aggVars, extVars, reservations, slots, selectedSlotNumber, profileVars>>

\* The slot update returns; its result is not read.  Success toast, dialog
\* closed, the slot appended to userReservations.
ConfirmUpdateDone(u, s, ok) ==
    /\ confirmCalls[u][s].update > 0
    /\ slotStatus' = IF ok THEN UpdateSlot(s, "reserved") ELSE slotStatus
    /\ toast' = Show(u, "Slot reserved successfully!")
    /\ reserveSlotId' = [reserveSlotId EXCEPT ![u] = ""]
    /\ userReservations' = [userReservations EXCEPT ![u] = Append(@, s)]
    /\ confirmCalls' = [confirmCalls EXCEPT ![u][s].update = @ - 1]
    /\ UNCHANGED <<aggVars, extVars, reservations, slots, selectedSlotNumber, profileVars>>

----------------------------------------------------------------------------
(* Profile *)

\* Profile mounts (state starts empty) and fetchReservations resolves.  The
\* user stays on the page while a cancellation is in flight.
ProfileMount(u, ok) ==
    /\ cancelCalls[u] = {}
    /\ IF ok
       THEN /\ profileReservations[u] # SelectReservations(u)
            /\ profileReservations' =
                   [profileReservations EXCEPT ![u] = SelectReservations(u)]
            /\ toast' = NoToast
       ELSE /\ profileReservations[u] # << >>
            /\ profileReservations' = [profileReservations EXCEPT ![u] = << >>]
            /\ toast' = Show(u, "Failed to load reservations")
    /\ UNCHANGED <<aggVars, extVars, backendVars, dashVars, cancelCalls>>

\* "Cancel Reservation" on the i-th row of the list, shown for active rows:
\* handleCancelReservation up to its first await.
CancelStart(u, i) ==
    /\ i \in DOMAIN profileReservations[u]
    /\ profileReservations[u][i].status = "active"
    /\ LET res == profileReservations[u][i]
       IN  /\ \A c \in cancelCalls[u] : c.id # res.id
           /\ cancelCalls' = [cancelCalls EXCEPT ![u] =
                  @ \cup {[id |-> res.id, slot_id |-> res.slot_id,
                           stage |-> "reservation"]}]
    /\ toast' = NoToast
    /\ UNCHANGED <<aggVars, extVars, backendVars, dashVars, profileReservations>>

\* The reservation update returns; on error the toast is raised but the handler
\* goes on to the slot update (the return lost).
CancelReservationDoneNoAbort(u, c, ok) ==
    /\ c \in cancelCalls[u]
    /\ c.stage = "reservation"
    /\ reservations' = IF ok THEN UpdateReservation(c.id, "cancelled") ELSE reservations
    /\ toast' = IF ok THEN NoToast ELSE Show(u, "Failed to cancel reservation")
    /\ cancelCalls' = [cancelCalls EXCEPT ![u] =
           (@ \ {c}) \cup {[c EXCEPT !.stage = "slot"]}]
    /\ UNCHANGED <<aggVars, extVars, slotStatus, dashVars, profileReservations>>

\* The reservation update returns.  On error: toast and return.  Otherwise the
\* slot update is issued.
CancelReservationDone(u, c, ok) ==
    /\ c \in cancelCalls[u]
    /\ c.stage = "reservation"
    /\ IF ok
       THEN /\ reservations' = UpdateReservation(c.id, "cancelled")
            /\ cancelCalls' = [cancelCalls EXCEPT ![u] =
                   (@ \ {c}) \cup {[c EXCEPT !.stage = "slot"]}]
            /\ toast' = NoToast
       ELSE /\ toast' = Show(u, "Failed to cancel reservation")
            /\ cancelCalls' = [cancelCalls EXCEPT ![u] = @ \ {c}]
            /\ UNCHANGED reservations
    /\ UNCHANGED <<aggVars, extVars, slotStatus, dashVars, profileReservations>>

\* A local update that marks every row of the list cancelled
MarkCancelledAll(list, id) ==
    [i \in DOMAIN list |-> [list[i] EXCEPT !.status = "cancelled"]]

\* setReservations(prev => prev.map(res => res.id === id ? cancelled : res))
MarkCancelled(list, id) ==
    [i \in DOMAIN list |->
        IF list[i].id = id THEN [list[i] EXCEPT !.status = "cancelled"] ELSE list[i]]

\* The slot update returns; an error is only logged.  Local list updated,
\* success toast.
CancelSlotDone(u, c, ok) ==
    /\ c \in cancelCalls[u]
    /\ c.stage = "slot"
    /\ slotStatus' = IF ok THEN UpdateSlot(c.slot_id, "free") ELSE slotStatus
    /\ profileReservations' =
           [profileReservations EXCEPT ![u] = MarkCancelled(@, c.id)]
    /\ toast' = Show(u, "Reservation cancelled successfully")
    /\ cancelCalls' = [cancelCalls EXCEPT ![u] = @ \ {c}]
    /\ UNCHANGED <<aggVars, extVars, reservations, dashVars>>

----------------------------------------------------------------------------
(* External sensor: occupied <-> free *)

Sensor(s) ==
    /\ slotStatus[s] \in {"free", "occupied"}
    /\ slotStatus' = UpdateSlot(s, IF slotStatus[s] = "free" THEN "occupied" ELSE "free")
    /\ toast' = NoToast
    /\ UNCHANGED <<aggVars, extVars, reservations, dashVars, profileVars>>

\* The reservations table is kept to `limit` rows
HasRoom(limit) == Len(reservations) < limit

\* One signed-in user with a Dashboard and a Profile open, and the sensors
Next ==
    \/ \E ok \in BOOLEAN : FetchSlots("u1", ok)
    \/ \E i \in DOMAIN SlotOrder : ClickSlot("u1", i)
    \/ CloseDialog("u1")
    \/ InFlight("u1") < MaxInFlight /\ ConfirmStart("u1")
    \/ \E s \in SlotIds, ok \in BOOLEAN :
           /\ ok => HasRoom(MaxReservations)
           /\ ConfirmInsertDone("u1", s, ok)
    \/ \E s \in SlotIds, ok \in BOOLEAN : ConfirmUpdateDone("u1", s, ok)
    \/ \E ok \in BOOLEAN : ProfileMount("u1", ok)
    \/ \E i \in 1..MaxReservations : CancelStart("u1", i)
    \/ \E ok \in BOOLEAN : \E c \in cancelCalls["u1"] :
           CancelReservationDone("u1", c, ok)
    \/ \E ok \in BOOLEAN : \E c \in cancelCalls["u1"] : CancelSlotDone("u1", c, ok)
    \/ \E s \in SlotIds : Sensor(s)

Spec == Init /\ [][Next]_vars

\* One signed-in user who reserves more than once and cancels on the Profile
NextProfile ==
    \/ FetchSlots("u1", TRUE)
    \/ \E i \in DOMAIN SlotOrder : ClickSlot("u1", i)
    \/ InFlight("u1") < MaxInFlight /\ ConfirmStart("u1")
    \/ \E s \in SlotIds :
           /\ HasRoom(MaxRaceReservations)
           /\ ConfirmInsertDone("u1", s, TRUE)
    \/ \E s \in SlotIds, ok \in BOOLEAN : ConfirmUpdateDone("u1", s, ok)
    \/ \E ok \in BOOLEAN : ProfileMount("u1", ok)
    \/ \E i \in 1..MaxRaceReservations : CancelStart("u1", i)
    \/ \E ok \in BOOLEAN : \E c \in cancelCalls["u1"] :
           CancelReservationDone("u1", c, ok)
    \/ \E ok \in BOOLEAN : \E c \in cancelCalls["u1"] : CancelSlotDone("u1", c, ok)

SpecProfile == Init /\ [][NextProfile]_vars

\* Two signed-in users, each on the Dashboard of the same area
NextRace ==
    \/ \E u \in Users, ok \in BOOLEAN : FetchSlots(u, ok)
    \/ \E u \in Users, i \in DOMAIN SlotOrder : ClickSlot(u, i)
    \/ \E u \in Users : CloseDialog(u)
    \/ \E u \in Users : InFlight(u) < MaxInFlight /\ ConfirmStart(u)
    \/ \E u \in Users, s \in SlotIds, ok \in BOOLEAN :
           /\ ok => HasRoom(MaxRaceReservations)
           /\ ConfirmInsertDone(u, s, ok)
    \/ \E u \in Users, s \in SlotIds, ok \in BOOLEAN : ConfirmUpdateDone(u, s, ok)

SpecRace == Init /\ [][NextRace]_vars

\* One user on the Dashboard who may confirm again while a confirmation is
\* still in flight
NextConfirm ==
    \/ \E ok \in BOOLEAN : FetchSlots("u1", ok)
    \/ \E i \in DOMAIN SlotOrder : ClickSlot("u1", i)
    \/ CloseDialog("u1")
    \/ InFlight("u1") < MaxConfirmsInFlight /\ ConfirmStart("u1")
    \/ \E s \in SlotIds, ok \in BOOLEAN :
           /\ ok => HasRoom(MaxRaceReservations)
           /\ ConfirmInsertDone("u1", s, ok)
    \/ \E s \in SlotIds, ok \in BOOLEAN : ConfirmUpdateDone("u1", s, ok)

SpecConfirm == Init /\ [][NextConfirm]_vars

----------------------------------------------------------------------------
(* System status monitor (SystemStatusIndicator) *)

Undefined == "undefined"
DefaultSystemId == "parking_monitor_tech_park_whitefield"
SystemIdProps == {Undefined, "parking_monitor_a"}

\* systemId || 'parking_monitor_tech_park_whitefield'
TargetSystemId(systemId) == IF systemId = Undefined THEN DefaultSystemId ELSE systemId

SystemIds == {TargetSystemId(p) : p \in SystemIdProps}

\* system_status.status: the two declared values, another one, and an empty one
RowStatuses == {"online", "offline", "maintenance", ""}

\* Clock readings, in minutes: now, a minute and two hours later
TimePoints == {0, 1, 120}

SystemRow(id, status, heartbeat) ==
    [system_id |-> id, status |-> status, last_heartbeat |-> heartbeat]

\* lastSeenText: `${n} min ago`, `${n}h ago`, or a fixed text (n = 0)
Text(text, n) == [text |-> text, n |-> n]

Truthy(status) == status # ""

\* calculateStatusLevel that downgrades an online system by heartbeat age
CalculateStatusLevelByAge(lastHeartbeat, currentStatus) ==
    LET diffMinutes == now - lastHeartbeat
    IN  IF currentStatus = "online"
        THEN [level |-> IF diffMinutes > 5 THEN "warning" ELSE "healthy",
              text |-> IF diffMinutes = 0 THEN Text("Just now", 0)
                       ELSE Text("min ago", diffMinutes)]
        ELSE IF currentStatus = "offline"
        THEN [level |-> "critical",
              text |-> IF diffMinutes < 60 THEN Text("min ago", diffMinutes)
                       ELSE Text("h ago", diffMinutes \div 60)]
        ELSE [level |-> "critical", text |-> Text("Unknown", 0)]

\* calculateStatusLevel that reports a recently seen offline system as warning
CalculateStatusLevelOfflineWarning(lastHeartbeat, currentStatus) ==
    LET diffMinutes == now - lastHeartbeat
    IN  IF currentStatus = "online"
        THEN [level |-> "healthy",
              text |-> IF diffMinutes = 0 THEN Text("Just now", 0)
                       ELSE Text("min ago", diffMinutes)]
        ELSE IF currentStatus = "offline"
        THEN [level |-> IF diffMinutes < 60 THEN "warning" ELSE "critical",
              text |-> IF diffMinutes < 60 THEN Text("min ago", diffMinutes)
                       ELSE Text("h ago", diffMinutes \div 60)]
        ELSE [level |-> "critical", text |-> Text("Unknown", 0)]

\* calculateStatusLevel: the level and text it sets
CalculateStatusLevel(lastHeartbeat, currentStatus) ==
    LET diffMinutes == now - lastHeartbeat
    IN  IF currentStatus = "online"
        THEN [level |-> "healthy",
              text |-> IF diffMinutes = 0 THEN Text("Just now", 0)
                       ELSE Text("min ago", diffMinutes)]
        ELSE IF currentStatus = "offline"
        THEN [level |-> "critical",
              text |-> IF diffMinutes < 60 THEN Text("min ago", diffMinutes)
                       ELSE Text("h ago", diffMinutes \div 60)]
        ELSE [level |-> "critical", text |-> Text("Unknown", 0)]

\* setSystemStatus(row); calculateStatusLevel(row.last_heartbeat, row.status)
ShowRow(row) ==
    LET r == CalculateStatusLevel(row.last_heartbeat, row.status)
    IN  /\ systemStatus' = Some(row)
        /\ statusLevel' = r.level
        /\ lastSeenText' = r.text

\* The effect body without setStatusLevel('critical') in its reset
MonEffectKeepLevel(systemId, chans) ==
    LET target == TargetSystemId(systemId)
    IN  /\ monSystemId' = systemId
        /\ monMounted' = TRUE
        /\ systemStatus' = None
        /\ statusLevel' = statusLevel
        /\ lastSeenText' = Text("Loading...", 0)
        /\ monFetches' = monFetches \cup {target}
        /\ monChannels' = [chans EXCEPT ![target] = @ + 1]

\* The body of useEffect[systemId]: reset, fetch, subscribe
MonEffect(systemId, chans) ==
    LET target == TargetSystemId(systemId)
    IN  /\ monSystemId' = systemId
        /\ monMounted' = TRUE
        /\ systemStatus' = None
        /\ statusLevel' = "critical"
        /\ lastSeenText' = Text("Loading...", 0)
        /\ monFetches' = monFetches \cup {target}
        /\ monChannels' = [chans EXCEPT ![target] = @ + 1]

\* The cleanup of useEffect[systemId]: supabase.removeChannel(channel)
MonCleanup(systemId) ==
    [monChannels EXCEPT ![TargetSystemId(systemId)] = @ - 1]

InitMon ==
    /\ monSystemId \in SystemIdProps
    /\ monMounted = TRUE
    /\ systemStatus = None
    /\ statusLevel = "critical"
    /\ lastSeenText = Text("Loading...", 0)
    /\ monFetches = {TargetSystemId(monSystemId)}
    /\ monChannels = [id \in SystemIds |->
                         IF id = TargetSystemId(monSystemId) THEN 1 ELSE 0]
    /\ monNotes = << >>
    /\ \E st \in [SystemIds -> RowStatuses \cup {"absent"}] :
           systemRows = [id \in SystemIds |->
                            IF st[id] = "absent" THEN None
                            ELSE Some(SystemRow(id, st[id], 0))]
    /\ now = 0
    /\ AggIdle
    /\ FlowIdle
    /\ MarkerIdle
    /\ ScreensIdle

\* The systemId prop changes: cleanup of the previous effect, then the effect
MonChangeSystemId(systemId) ==
    /\ monMounted
    /\ systemId # monSystemId
    /\ MonEffect(systemId, MonCleanup(monSystemId))
    /\ UNCHANGED <<monNotes, systemRows, now, notMonVars>>

\* The component unmounts: cleanup only. What its fetches in flight set
\* afterwards belongs to the discarded instance, so they are dropped here.
MonUnmount ==
    /\ monMounted
    /\ monMounted' = FALSE
    /\ monChannels' = MonCleanup(monSystemId)
    /\ monFetches' = {}
    /\ UNCHANGED <<monSystemId, systemStatus, statusLevel, lastSeenText,
                   monNotes, systemRows, now, notMonVars>>

\* The component mounts again: useState initial values, then the effect
MonMount(systemId) ==
    /\ ~monMounted
    /\ MonEffect(systemId, monChannels)
    /\ UNCHANGED <<monNotes, systemRows, now, notMonVars>>

\* fetchSystemStatus that keeps what is displayed when the query fails
MonFetchDoneKeepOnError(target, outcome) ==
    /\ monMounted
    /\ target \in monFetches
    /\ outcome = "data" => systemRows[target] # None
    /\ monFetches' = monFetches \ {target}
    /\ IF outcome = "error"
       THEN UNCHANGED <<systemStatus, statusLevel, lastSeenText>>
       ELSE IF outcome = "throw"
       THEN /\ systemStatus' = None
            /\ statusLevel' = "critical"
            /\ lastSeenText' = Text("Error", 0)
       ELSE ShowRow(systemRows[target][1])
    /\ UNCHANGED <<monSystemId, monMounted, monChannels, monNotes, systemRows,
                   now, notMonVars>>

\* fetchSystemStatus resumes after its await, for the target it was called with
MonFetchDone(target, outcome) ==
    /\ monMounted
    /\ target \in monFetches
    /\ outcome = "data" => systemRows[target] # None
    /\ monFetches' = monFetches \ {target}
    /\ IF outcome = "error"
       THEN /\ systemStatus' = None
            /\ statusLevel' = "critical"
            /\ lastSeenText' = Text("Never", 0)
       ELSE IF outcome = "throw"
       THEN /\ systemStatus' = None
            /\ statusLevel' = "critical"
            /\ lastSeenText' = Text("Error", 0)
       ELSE ShowRow(systemRows[target][1])
    /\ UNCHANGED <<monSystemId, monMounted, monChannels, monNotes, systemRows,
                   now, notMonVars>>

\* The monitored device writes its row; the change is published
SystemWrite(id, status) ==
    /\ Len(monNotes) < MaxNotes
    /\ systemRows' = [systemRows EXCEPT ![id] = Some(SystemRow(id, status, now))]
    /\ monNotes' = Append(monNotes, Some(SystemRow(id, status, now)))
    /\ UNCHANGED <<monSystemId, monMounted, systemStatus, statusLevel,
                   lastSeenText, monFetches, monChannels, now, notMonVars>>

\* A row is deleted; the change is published without payload.new
SystemDelete(id) ==
    /\ Len(monNotes) < MaxNotes
    /\ systemRows[id] # None
    /\ systemRows' = [systemRows EXCEPT ![id] = None]
    /\ monNotes' = Append(monNotes, None)
    /\ UNCHANGED <<monSystemId, monMounted, systemStatus, statusLevel,
                   lastSeenText, monFetches, monChannels, now, notMonVars>>

\* The subscribed channels' handlers that accept payload
Accepting(payload) ==
    {id \in SystemIds : /\ monChannels[id] > 0
                        /\ payload # None
                        /\ payload[1].system_id = id}

\* A postgres_changes event reaches the client
MonNotify ==
    /\ monNotes # << >>
    /\ monNotes' = Tail(monNotes)
    /\ IF Accepting(Head(monNotes)) # {}
       THEN ShowRow(Head(monNotes)[1])
       ELSE UNCHANGED <<systemStatus, statusLevel, lastSeenText>>
    /\ UNCHANGED <<monSystemId, monMounted, monFetches, monChannels,
                   systemRows, now, notMonVars>>

\* An interval callback that fetches the row again
MonTimerRefetch ==
    /\ monMounted
    /\ monFetches' = monFetches \cup {TargetSystemId(monSystemId)}
    /\ UNCHANGED <<monSystemId, monMounted, systemStatus, statusLevel, lastSeenText,
                   monChannels, monNotes, systemRows, now, notMonVars>>

\* The 30 s interval fires
MonTimer ==
    /\ monMounted
    /\ IF /\ systemStatus # None
          /\ Truthy(systemStatus[1].status)
       THEN LET r == CalculateStatusLevel(systemStatus[1].last_heartbeat,
                                          systemStatus[1].status)
            IN  /\ statusLevel' = r.level
                /\ lastSeenText' = r.text
       ELSE UNCHANGED <<statusLevel, lastSeenText>>
    /\ UNCHANGED <<monSystemId, monMounted, systemStatus, monFetches,
                   monChannels, monNotes, systemRows, now, notMonVars>>

\* Time passes
Advance(t) ==
    /\ t > now
    /\ now' = t
    /\ UNCHANGED <<monSystemId, monMounted, systemStatus, statusLevel,
                   lastSeenText, monFetches, monChannels, monNotes, systemRows,
                   notMonVars>>

NextMon ==
    \/ \E p \in SystemIdProps : MonChangeSystemId(p)
    \/ MonUnmount
    \/ \E p \in SystemIdProps : MonMount(p)
    \/ \E id \in SystemIds, o \in {"data", "error", "throw"} : MonFetchDone(id, o)
    \/ \E id \in SystemIds, st \in RowStatuses : SystemWrite(id, st)
    \/ \E id \in SystemIds : SystemDelete(id)
    \/ MonNotify
    \/ MonTimer
    \/ \E t \in TimePoints : Advance(t)

SpecMon == InitMon /\ [][NextMon]_vars

----------------------------------------------------------------------------
(* Map markers (MapTilerMap): the click / double-click gesture *)

\* parkingAreas: one marker each
Areas == {"a1", "a2"}

\* The markers effect has run: a fresh layer with one marker per area
FreshMarkers ==
    /\ mkClickCount' = [a \in Areas |-> 0]
    /\ mkClickTimeout' = [a \in Areas |-> "null"]
    /\ mkTimerPending' = [a \in Areas |-> FALSE]

InitMarker ==
    /\ mkClickCount = [a \in Areas |-> 0]
    /\ mkClickTimeout = [a \in Areas |-> "null"]
    /\ mkTimerPending = [a \in Areas |-> FALSE]
    /\ mkStale = {}
    /\ mkPopups = [a \in Areas |-> 0]
    /\ mkNavigations = [a \in Areas |-> 0]
    /\ AggIdle
    /\ FlowIdle
    /\ MonIdle
    /\ ScreensIdle

\* handleMarkerClick that navigates without cancelling the pending timer
MarkerClickNoClear(a) ==
    /\ mkPopups[a] + mkNavigations[a] < MaxGestures
    /\ IF mkClickCount[a] + 1 = 1
       THEN /\ mkClickCount' = [mkClickCount EXCEPT ![a] = 1]
            /\ mkClickTimeout' = [mkClickTimeout EXCEPT ![a] = "handle"]
            /\ mkTimerPending' = [mkTimerPending EXCEPT ![a] = TRUE]
            /\ UNCHANGED mkNavigations
       ELSE /\ mkClickCount' = [mkClickCount EXCEPT ![a] = 0]
            /\ mkNavigations' = [mkNavigations EXCEPT ![a] = @ + 1]
            /\ UNCHANGED <<mkClickTimeout, mkTimerPending>>
    /\ UNCHANGED <<mkStale, mkPopups, notMarkerVars>>

\* handleMarkerClick of the marker of area a, which is on the map
MarkerClick(a) ==
    /\ mkPopups[a] + mkNavigations[a] < MaxGestures
    /\ IF mkClickCount[a] + 1 = 1
       THEN /\ mkClickCount' = [mkClickCount EXCEPT ![a] = 1]
            /\ mkClickTimeout' = [mkClickTimeout EXCEPT ![a] = "handle"]
            /\ mkTimerPending' = [mkTimerPending EXCEPT ![a] = TRUE]
            /\ UNCHANGED mkNavigations
       ELSE /\ mkClickCount[a] + 1 = 2
            /\ mkClickTimeout' = [mkClickTimeout EXCEPT ![a] = "null"]
            /\ mkTimerPending' = [mkTimerPending EXCEPT ![a] =
                                     IF mkClickTimeout[a] # "null" THEN FALSE ELSE @]
            /\ mkNavigations' = [mkNavigations EXCEPT ![a] = @ + 1]
            /\ mkClickCount' = [mkClickCount EXCEPT ![a] = 0]
    /\ UNCHANGED <<mkStale, mkPopups, notMarkerVars>>

\* A timer callback that opens the popup and leaves clickCount as it is
MarkerTimerNoReset(a) ==
    /\ mkTimerPending[a]
    /\ mkTimerPending' = [mkTimerPending EXCEPT ![a] = FALSE]
    /\ mkPopups' = [mkPopups EXCEPT ![a] = @ + 1]
    /\ UNCHANGED <<mkClickCount, mkClickTimeout, mkStale, mkNavigations, notMarkerVars>>

\* The timer of a marker on the map fires: map.hasLayer(marker) holds
MarkerTimer(a) ==
    /\ mkTimerPending[a]
    /\ mkTimerPending' = [mkTimerPending EXCEPT ![a] = FALSE]
    /\ mkPopups' = [mkPopups EXCEPT ![a] = @ + 1]
    /\ mkClickCount' = [mkClickCount EXCEPT ![a] = 0]
    /\ UNCHANGED <<mkClickTimeout, mkStale, mkNavigations, notMarkerVars>>

\* The timer of a marker of the removed layer fires: map.hasLayer(marker) fails
StaleTimer(a) ==
    /\ a \in mkStale
    /\ mkStale' = mkStale \ {a}
    /\ UNCHANGED <<mkClickCount, mkClickTimeout, mkTimerPending, mkPopups,
                   mkNavigations, notMarkerVars>>

\* parkingAreas changes: the previous effect's cleanup runs _clickCleanup on the
\* layer it captured (the one removed before), then the effect removes the
\* current layer from the map and builds a new one
MarkersRerender ==
    /\ mkStale' = {a \in Areas : mkTimerPending[a]}
    /\ FreshMarkers
    /\ UNCHANGED <<mkPopups, mkNavigations, notMarkerVars>>

NextMarker ==
    \/ \E a \in Areas : MarkerClick(a)
    \/ \E a \in Areas : MarkerTimer(a)
    \/ \E a \in Areas : StaleTimer(a)
    \/ MarkersRerender

SpecMarker == InitMarker /\ [][NextMarker]_vars

----------------------------------------------------------------------------
(* Screens and their realtime subscriptions (MapView, Dashboard, monitor) *)

\* supabase.channel(name): the names the screens use
SlotsChanges == <<"slots-changes">>
AreasChanges == <<"areas-changes">>
SlotsOf(a) == <<"slots-", a>>
ChannelNames == {SlotsChanges, AreasChanges} \cup {SlotsOf(a) : a \in Areas}

Subscribe(chans, name) == [chans EXCEPT ![name] = @ + 1]
\* supabase.removeChannel(channel)
RemoveChannel(chans, name) == [chans EXCEPT ![name] = @ - 1]

\* select('*').eq('parking_area_id', a).order('slot_number')
AreaRows(a) == <<[id |-> a, parking_area_id |-> a, status |-> areaStatus[a]]>>

\* The cleanup of useEffect[selectedAreaId]; the effect returned early for ""
DashCleanup ==
    IF selectedAreaId = "" THEN channels
    ELSE RemoveChannel(channels, SlotsOf(selectedAreaId))

InitScreens ==
    /\ dashMounted = TRUE
    /\ selectedAreaId = ""
    /\ dashSlots = << >>
    /\ dashFetches = {}
    /\ screenToast = ""
    /\ mapMounted = FALSE
    /\ mapFetches = 0
    /\ mapLoading = TRUE
    /\ parkingAreasWithOccupancy = << >>
    /\ profMounted = FALSE
    /\ profReservations = << >>
    /\ profFetching = FALSE
    /\ channels = [n \in ChannelNames |-> 0]
    /\ areaStatus = [a \in Areas |-> "free"]
    /\ monSystemId = Undefined
    /\ monMounted = TRUE
    /\ systemStatus = None
    /\ statusLevel = "critical"
    /\ lastSeenText = Text("Loading...", 0)
    /\ monFetches = {DefaultSystemId}
    /\ monChannels = [id \in SystemIds |-> IF id = DefaultSystemId THEN 1 ELSE 0]
    /\ monNotes = << >>
    /\ systemRows = [id \in SystemIds |-> None]
    /\ now = 0
    /\ AggIdle
    /\ FlowIdle
    /\ MarkerIdle

\* setSelectedAreaId that leaves the previous area's channel subscribed
SelectAreaNoCleanup(a) ==
    /\ dashMounted
    /\ a # selectedAreaId
    /\ selectedAreaId' = a
    /\ dashFetches' = dashFetches \cup {a}
    /\ channels' = Subscribe(channels, SlotsOf(a))
    /\ screenToast' = ""
    /\ UNCHANGED <<dashMounted, dashSlots, mapVars, profVars, areaStatus,
                   monVars, notScreenVars>>

\* setSelectedAreaId(a), from the Select or from fetchParkingAreas: the cleanup
\* of useEffect[selectedAreaId], then the effect for a
SelectArea(a) ==
    /\ dashMounted
    /\ a # selectedAreaId
    /\ selectedAreaId' = a
    /\ dashFetches' = dashFetches \cup {a}
    /\ channels' = Subscribe(DashCleanup, SlotsOf(a))
    /\ screenToast' = ""
    /\ UNCHANGED <<dashMounted, dashSlots, mapVars, profVars, areaStatus,
                   monVars, notScreenVars>>

\* fetchSlots that drops the response of an area no longer selected
DashFetchDoneTagged(a, ok) ==
    /\ dashMounted
    /\ a \in dashFetches
    /\ dashFetches' = dashFetches \ {a}
    /\ dashSlots' = IF ok /\ a = selectedAreaId THEN AreaRows(a) ELSE dashSlots
    /\ screenToast' = IF ok THEN "" ELSE "Failed to load slots"
    /\ UNCHANGED <<dashMounted, selectedAreaId, mapVars, profVars, channels,
                   areaStatus, monVars, notScreenVars>>

\* fetchSlots of the effect run for area a resumes after its await
DashFetchDone(a, ok) ==
    /\ dashMounted
    /\ a \in dashFetches
    /\ dashFetches' = dashFetches \ {a}
    /\ dashSlots' = IF ok THEN AreaRows(a) ELSE dashSlots
    /\ screenToast' = IF ok THEN "" ELSE "Failed to load slots"
    /\ UNCHANGED <<dashMounted, selectedAreaId, mapVars, profVars, channels,
                   areaStatus, monVars, notScreenVars>>

\* The Dashboard unmounts: cleanup only. What its fetches in flight set
\* afterwards belongs to the discarded instance, so they are dropped here.
DashUnmount ==
    /\ dashMounted
    /\ dashMounted' = FALSE
    /\ channels' = DashCleanup
    /\ dashFetches' = {}
    /\ screenToast' = ""
    /\ UNCHANGED <<selectedAreaId, dashSlots, mapVars, profVars, areaStatus,
                   monVars, notScreenVars>>

\* The Dashboard mounts: useState initial values; the effect returns early
DashMount ==
    /\ ~dashMounted
    /\ dashMounted' = TRUE
    /\ selectedAreaId' = ""
    /\ dashSlots' = << >>
    /\ screenToast' = ""
    /\ UNCHANGED <<dashFetches, mapVars, profVars, channels, areaStatus,
                   monVars, notScreenVars>>

\* areasWithOccupancy of a fetch: one record per area (each area declares one
\* slot), with zeros for the areas in errs, whose slots query failed
AreasWithOccupancy(errs) ==
    [a \in Areas |->
        WithOccupancy([total_slots |-> Some(1)], Some(<<Row(areaStatus[a])>>),
                      a \in errs)]

\* The MapView mounts: useState initial values, the fetch is started
\* (setLoading(true)), then the two subscriptions
MapMount ==
    /\ ~mapMounted
    /\ mapMounted' = TRUE
    /\ parkingAreasWithOccupancy' = << >>
    /\ mapLoading' = TRUE
    /\ mapFetches' = 1
    /\ channels' = Subscribe(Subscribe(channels, SlotsChanges), AreasChanges)
    /\ screenToast' = ""
    /\ UNCHANGED <<dashMounted, selectedAreaId, dashSlots, dashFetches, profVars,
                   areaStatus, monVars, notScreenVars>>

\* The MapView unmounts: both channels removed. What its fetches in flight set
\* afterwards belongs to the discarded instance, so they are dropped here.
MapUnmount ==
    /\ mapMounted
    /\ mapMounted' = FALSE
    /\ mapFetches' = 0
    /\ channels' = RemoveChannel(RemoveChannel(channels, SlotsChanges), AreasChanges)
    /\ screenToast' = ""
    /\ UNCHANGED <<dashMounted, selectedAreaId, dashSlots, dashFetches, mapLoading,
                   parkingAreasWithOccupancy, profVars, areaStatus, monVars,
                   notScreenVars>>

MapOutcomes == {"ok", "slotsError", "noAreas", "areasError"}

\* fetchParkingAreasWithOccupancy whose catch block empties the list
MapFetchDoneClearOnError(outcome) ==
    /\ mapMounted
    /\ mapFetches > 0
    /\ mapFetches' = mapFetches - 1
    /\ parkingAreasWithOccupancy' =
           CASE outcome = "ok" -> AreasWithOccupancy({})
             [] outcome = "slotsError" -> AreasWithOccupancy({"a1"})
             [] outcome = "noAreas" -> << >>
             [] outcome = "areasError" -> << >>
    /\ mapLoading' = FALSE
    /\ screenToast' = IF outcome = "areasError" THEN "Failed to load parking areas"
                      ELSE ""
    /\ UNCHANGED <<dashMounted, selectedAreaId, dashSlots, dashFetches, mapMounted,
                   profVars, channels, areaStatus, monVars, notScreenVars>>

\* fetchParkingAreasWithOccupancy without its finally block
MapFetchDoneNoFinally(outcome) ==
    /\ mapMounted
    /\ mapFetches > 0
    /\ mapFetches' = mapFetches - 1
    /\ parkingAreasWithOccupancy' =
           CASE outcome = "ok" -> AreasWithOccupancy({})
             [] outcome = "slotsError" -> AreasWithOccupancy({"a1"})
             [] outcome = "noAreas" -> << >>
             [] outcome = "areasError" -> parkingAreasWithOccupancy
    /\ mapLoading' = IF outcome = "ok" THEN FALSE ELSE mapLoading
    /\ screenToast' = IF outcome = "areasError" THEN "Failed to load parking areas"
                      ELSE ""
    /\ UNCHANGED <<dashMounted, selectedAreaId, dashSlots, dashFetches, mapMounted,
                   profVars, channels, areaStatus, monVars, notScreenVars>>

\* fetchParkingAreasWithOccupancy resumes after its awaits: the areas query
\* failed (throw), returned no array, or the areas were aggregated (the slots
\* query of a1 having failed or not); finally setLoading(false)
MapFetchDone(outcome) ==
    /\ mapMounted
    /\ mapFetches > 0
    /\ mapFetches' = mapFetches - 1
    /\ parkingAreasWithOccupancy' =
           CASE outcome = "ok" -> AreasWithOccupancy({})
             [] outcome = "slotsError" -> AreasWithOccupancy({"a1"})
             [] outcome = "noAreas" -> << >>
             [] outcome = "areasError" -> parkingAreasWithOccupancy
    /\ mapLoading' = FALSE
    /\ screenToast' = IF outcome = "areasError" THEN "Failed to load parking areas"
                      ELSE ""
    /\ UNCHANGED <<dashMounted, selectedAreaId, dashSlots, dashFetches, mapMounted,
                   profVars, channels, areaStatus, monVars, notScreenVars>>

\* The slot of area a changes; the subscribed handlers run: fetchSlots of the
\* channel filtered on a, fetchParkingAreasWithOccupancy of slots-changes
\* (setLoading(true), then its first await)
SlotChange(a, status) ==
    /\ status # areaStatus[a]
    /\ channels[SlotsChanges] > 0 => mapFetches < MaxMapFetches
    /\ areaStatus' = [areaStatus EXCEPT ![a] = status]
    /\ dashFetches' = IF channels[SlotsOf(a)] > 0 THEN dashFetches \cup {a}
                      ELSE dashFetches
    /\ IF channels[SlotsChanges] > 0
       THEN mapFetches' = mapFetches + 1 /\ mapLoading' = TRUE
       ELSE UNCHANGED <<mapFetches, mapLoading>>
    /\ screenToast' = ""
    /\ UNCHANGED <<dashMounted, selectedAreaId, dashSlots, mapMounted,
                   parkingAreasWithOccupancy, profVars, channels, monVars,
                   notScreenVars>>

\* What the reservations query of the Profile returns
ProfileRows == <<[id |-> 1, slot_id |-> "a1", status |-> "active"]>>

\* The Profile mounts: useState initial values, fetchReservations is started
ProfMount ==
    /\ ~profMounted
    /\ profMounted' = TRUE
    /\ profReservations' = << >>
    /\ profFetching' = TRUE
    /\ screenToast' = ""
    /\ UNCHANGED <<dashMounted, selectedAreaId, dashSlots, dashFetches, mapVars,
                   channels, areaStatus, monVars, notScreenVars>>

\* The Profile unmounts (it holds no subscription)
ProfUnmount ==
    /\ profMounted
    /\ profMounted' = FALSE
    /\ profFetching' = FALSE
    /\ screenToast' = ""
    /\ UNCHANGED <<dashMounted, selectedAreaId, dashSlots, dashFetches, mapVars,
                   profReservations, channels, areaStatus, monVars, notScreenVars>>

\* fetchReservations resumes after its await
ProfFetchDone(ok) ==
    /\ profMounted
    /\ profFetching
    /\ profFetching' = FALSE
    /\ profReservations' = IF ok THEN ProfileRows ELSE profReservations
    /\ screenToast' = IF ok THEN "" ELSE "Failed to load reservations"
    /\ UNCHANGED <<dashMounted, selectedAreaId, dashSlots, dashFetches, mapVars,
                   profMounted, channels, areaStatus, monVars, notScreenVars>>

\* The subscriptions of the screens: mounts, unmounts, selections, events
NextScreens ==
    \/ \E a \in Areas : SelectArea(a)
    \/ \E a \in Areas, ok \in BOOLEAN : DashFetchDone(a, ok)
    \/ DashUnmount
    \/ DashMount
    \/ MapMount
    \/ MapUnmount
    \/ \E a \in Areas, st \in {"free", "occupied"} : SlotChange(a, st)
    \/ \E p \in SystemIdProps : MonChangeSystemId(p)
    \/ MonUnmount
    \/ \E p \in SystemIdProps : MonMount(p)

SpecScreens == InitScreens /\ [][NextScreens]_vars

\* The fetches of the three pages and what they store
NextPages ==
    \/ \E a \in Areas : SelectArea(a)
    \/ \E a \in Areas, ok \in BOOLEAN : DashFetchDone(a, ok)
    \/ MapMount
    \/ MapUnmount
    \/ \E o \in MapOutcomes : MapFetchDone(o)
    \/ \E a \in Areas, st \in {"free", "occupied"} : SlotChange(a, st)
    \/ ProfMount
    \/ ProfUnmount
    \/ \E ok \in BOOLEAN : ProfFetchDone(ok)

SpecPages == InitScreens /\ [][NextPages]_vars

\* The MapView alone; every request of the client library resolves or rejects
NextMapView ==
    \/ MapMount
    \/ MapUnmount
    \/ \E o \in MapOutcomes : MapFetchDone(o)
    \/ \E a \in Areas, st \in {"free", "occupied"} : SlotChange(a, st)

SpecMapView ==
    /\ InitScreens
    /\ [][NextMapView]_vars
    /\ WF_vars(\E o \in MapOutcomes : MapFetchDone(o))

\* The Dashboard shows the rows of area a
ShowsArea(a) == dashSlots # << >> /\ dashSlots[1].parking_area_id = a

\* C15: every channel name has at most one live subscription; the MapView's two
\* channels live only while it is mounted; the Dashboard's slots channel lives
\* only for the selected area of the mounted Dashboard; the monitor's channel
\* lives only for the current target of the mounted monitor.
C15_SubscriptionsReleased ==
    /\ \A n \in ChannelNames : channels[n] <= 1
    /\ ~mapMounted => channels[SlotsChanges] = 0 /\ channels[AreasChanges] = 0
    /\ \A a \in Areas :
           channels[SlotsOf(a)] > 0 => dashMounted /\ selectedAreaId = a
    /\ \A id \in SystemIds :
           /\ monChannels[id] <= 1
           /\ monChannels[id] > 0 => monMounted /\ TargetSystemId(monSystemId) = id

\* All three screens have subscribed and released: nothing is left subscribed
C15_Witness ==
    /\ ~mapMounted /\ ~dashMounted /\ ~monMounted
    /\ selectedAreaId = "a2"
    /\ monSystemId # Undefined
    /\ \A n \in ChannelNames : channels[n] = 0
    /\ \A id \in SystemIds : monChannels[id] = 0

\* C18: a slot fetch in flight survives a change of selectedAreaId, and its
\* response replaces the displayed rows whatever area is selected by then.
C18_StaleResponseApplied ==
    [][/\ \A a \in Areas : SelectArea(a) => dashFetches \subseteq dashFetches'
       /\ \A a \in Areas : DashFetchDone(a, TRUE) => ShowsArea(a)']_vars

\* Area a2 is selected and its fetch has returned, and the rows of a1 are shown
C18_Witness ==
    /\ dashMounted
    /\ selectedAreaId = "a2"
    /\ dashFetches = {}
    /\ ShowsArea("a1")

----------------------------------------------------------------------------
(* Properties of the status monitor *)

\* A step that runs calculateStatusLevel or the fetch's failure branches
Classifies ==
    \/ \E id \in SystemIds, o \in {"data", "error", "throw"} : MonFetchDone(id, o)
    \/ MonNotify
    \/ MonTimer

HoldsOnline == systemStatus # None /\ systemStatus[1].status = "online"

\* C11: every step that classifies an online record (fetch result, change
\* notification or timer) leaves statusLevel healthy, whatever the age of the
\* heartbeat.
C11_OnlineIsHealthy ==
    [][Classifies /\ HoldsOnline' => statusLevel' = "healthy"]_vars

\* An online record two hours old is displayed as healthy
C11_Witness ==
    /\ HoldsOnline
    /\ now - systemStatus[1].last_heartbeat = 120
    /\ lastSeenText = Text("min ago", 120)
    /\ statusLevel = "healthy"

\* C12: a classifying step that leaves a record which is not online, or no
\* record, leaves statusLevel critical; a failed fetch leaves no record, critical
\* and "Never".
C12_NotOnlineIsCritical ==
    [][/\ Classifies /\ ~HoldsOnline' => statusLevel' = "critical"
       /\ (\E id \in SystemIds : MonFetchDone(id, "error"))
              => /\ systemStatus' = None
                 /\ statusLevel' = "critical"
                 /\ lastSeenText' = Text("Never", 0)]_vars

\* A fetch failed although the system's row exists: no record, "Never"
C12_Witness ==
    /\ monMounted
    /\ systemStatus = None
    /\ statusLevel = "critical"
    /\ lastSeenText = Text("Never", 0)
    /\ systemRows[TargetSystemId(monSystemId)] # None

\* C13: the monitor never holds a record of a system other than the one its
\* systemId prop names.
C13_NeverPreviousSystem ==
    monMounted /\ systemStatus # None
        => systemStatus[1].system_id = TargetSystemId(monSystemId)

\* C20: statusLevel is healthy or critical in every state.
C20_NoWarning == statusLevel \in {"healthy", "critical"}

\* An offline record a minute old is displayed as critical, "1 min ago"
C20_Witness ==
    /\ monMounted
    /\ systemStatus # None
    /\ systemStatus[1].status = "offline"
    /\ now - systemStatus[1].last_heartbeat = 1
    /\ lastSeenText = Text("min ago", 1)
    /\ statusLevel = "critical"

----------------------------------------------------------------------------
(* Properties of the reservation workflow *)

ActiveOn(s) ==
    {i \in DOMAIN reservations :
        reservations[i].slot_id = s /\ reservations[i].status = "active"}

ActiveReservations(list) == SelectSeq(list, LAMBDA r : r.status = "active")

PastReservations(list) == SelectSeq(list, LAMBDA r : r.status # "active")

\* C5: reserving a free slot, the insert succeeding, sets the slot's backend
\* status to reserved and adds exactly one entry for it to userReservations.
C5_ReserveSetsReserved ==
    [][\A u \in Users, s \in SlotIds :
          (slotStatus[s] = "free" /\ \E ok \in BOOLEAN : ConfirmUpdateDone(u, s, ok)) =>
              /\ slotStatus'[s] = "reserved"
              /\ userReservations'[u] = Append(userReservations[u], s)]_vars

\* C6: no reservation insert and no slot update is issued for a slot that is
\* not free at the moment of the write.
C6_WritesOnlyOnFreeSlot ==
    [][\A u \in Users, s \in SlotIds :
          (\/ ConfirmStart(u) /\ reserveSlotId[u] = s
           \/ ConfirmInsertDone(u, s, TRUE)
           \/ ConfirmUpdateDone(u, s, TRUE)) => slotStatus[s] = "free"]_vars

\* C7: cancelling an active reservation sets it to cancelled and its slot to
\* free, and removes it from the active list of the Profile.
C7_CancelFreesSlot ==
    [][\A u \in Users : \A c \in cancelCalls[u] :
          (\E ok \in BOOLEAN : CancelSlotDone(u, c, ok)) =>
              /\ reservations'[c.id].status = "cancelled"
              /\ slotStatus'[c.slot_id] = "free"
              /\ \A i \in DOMAIN ActiveReservations(profileReservations'[u]) :
                     ActiveReservations(profileReservations'[u])[i].id # c.id]_vars

\* C8: no two active reservation rows reference the same slot.
C8_OneActivePerSlot == \A s \in SlotIds : Cardinality(ActiveOn(s)) <= 1

\* C9: when the primary write fails (insert on confirm, reservation update on
\* cancel) the user is notified and nothing is mutated: no slot update is
\* issued, backend rows and the local lists are unchanged.
C9_PrimaryFailureAborts ==
    [][\A u \in Users :
          /\ \A s \in SlotIds :
                ConfirmInsertDone(u, s, FALSE) =>
                    /\ toast'[u] = "Failed to create reservation"
                    /\ confirmCalls'[u][s].update = confirmCalls[u][s].update
                    /\ UNCHANGED <<slotStatus, reservations, slots, userReservations,
                                   reserveSlotId, profileReservations>>
          /\ \A c \in cancelCalls[u] :
                CancelReservationDone(u, c, FALSE) =>
                    /\ toast'[u] = "Failed to cancel reservation"
                    /\ cancelCalls'[u] = cancelCalls[u] \ {c}
                    /\ UNCHANGED <<slotStatus, reservations, slots, userReservations,
                                   profileReservations>>]_vars

C9_Witness ==
    /\ toast["u1"] = "Failed to create reservation"
    /\ reserveSlotId["u1"] = "s1"
    /\ slotStatus["s1"] = "free"
    /\ reservations = << >>
    /\ userReservations["u1"] = << >>
    /\ confirmCalls["u1"]["s1"] = NoCalls

\* C10: when the primary write succeeds and the paired slot update fails, the
\* failure is not surfaced and nothing is rolled back: the reservation change
\* stays, the local state is updated and the success toast is shown as on full
\* success, and the slot keeps the status it had.
C10_SecondaryFailureSilent ==
    [][\A u \in Users :
          /\ \A s \in SlotIds :
                ConfirmUpdateDone(u, s, FALSE) =>
                    /\ toast'[u] = "Slot reserved successfully!"
                    /\ userReservations'[u] = Append(userReservations[u], s)
                    /\ reserveSlotId'[u] = ""
                    /\ UNCHANGED <<slotStatus, reservations>>
          /\ \A c \in cancelCalls[u] :
                CancelSlotDone(u, c, FALSE) =>
                    /\ toast'[u] = "Reservation cancelled successfully"
                    /\ profileReservations'[u] =
                           MarkCancelled(profileReservations[u], c.id)
                    /\ reservations'[c.id].status = "cancelled"
                    /\ UNCHANGED <<slotStatus, reservations>>]_vars

\* A success toast over a backend where the reserved slot is still free
C10_Witness ==
    /\ toast["u1"] = "Slot reserved successfully!"
    /\ userReservations["u1"] = <<"s1">>
    /\ ActiveOn("s1") # {}
    /\ slotStatus["s1"] = "free"

----------------------------------------------------------------------------
(* Properties of the aggregator, checked under SpecAgg *)

AggRows == IF aggSlotsData = None THEN << >> ELSE aggSlotsData[1]
AggTotal == aggArea.total_slots
NumWithStatus(rows, S) == Cardinality({i \in DOMAIN rows : rows[i].status \in S})
MapViewComputed == areaWithOccupancy.computed /\ ~aggSlotsError
ScenarioRows ==
    Repeat(Row("free"), 6) \o Repeat(Row("occupied"), 3) \o Repeat(Row("reserved"), 1)

\* C1: with total > 0 the aggregator's three counts are the numbers of slots of
\* exactly that status and occupancyPercentage = 100 * (occupied + reserved) / total;
\* 6 free, 3 occupied, 1 reserved of total_slots = 10 give 6, 3, 1 and 40.
C1_CountsAndPercentage ==
    (MapViewComputed /\ AggTotal # None /\ AggTotal[1] > 0) =>
        /\ areaWithOccupancy.freeSlots = NumWithStatus(AggRows, {"free"})
        /\ areaWithOccupancy.occupiedSlots = NumWithStatus(AggRows, {"occupied"})
        /\ areaWithOccupancy.reservedSlots = NumWithStatus(AggRows, {"reserved"})
        /\ areaWithOccupancy.occupancyPercentage.den > 0
        /\ areaWithOccupancy.occupancyPercentage.num * AggTotal[1] =
              100 * (NumWithStatus(AggRows, {"occupied", "reserved"}))
                  * areaWithOccupancy.occupancyPercentage.den
        /\ (AggRows = ScenarioRows /\ AggTotal = Some(10)) =>
              /\ areaWithOccupancy.freeSlots = 6
              /\ areaWithOccupancy.occupiedSlots = 3
              /\ areaWithOccupancy.reservedSlots = 1
              /\ PctEq(areaWithOccupancy.occupancyPercentage, 40)

C1_Witness ==
    /\ MapViewComputed
    /\ AggRows = ScenarioRows
    /\ AggTotal = Some(10)
    /\ PctEq(areaWithOccupancy.occupancyPercentage, 40)

\* C2: with total > 0 the occupancyPercentage lies in [0,100] for any slot set,
\* also one with more occupied or reserved slots than the declared capacity.
C2_PercentageInRange ==
    (MapViewComputed /\ AggTotal # None /\ AggTotal[1] > 0) =>
        /\ PctGeq(areaWithOccupancy.occupancyPercentage, 0)
        /\ PctLeq(areaWithOccupancy.occupancyPercentage, 100)

\* C3: free + occupied + reserved <= number of slots, with equality exactly when
\* every slot's status is one of free, occupied, reserved (MapView and Dashboard).
C3_CountsBoundedBySlots ==
    /\ MapViewComputed =>
          LET sum == areaWithOccupancy.freeSlots + areaWithOccupancy.occupiedSlots
                       + areaWithOccupancy.reservedSlots
          IN  /\ sum <= Len(AggRows)
              /\ (sum = Len(AggRows)) <=>
                    (\A i \in DOMAIN AggRows : AggRows[i].status \in KnownStatuses)
    /\ occupancyData.computed =>
          LET sum == occupancyData.free + occupancyData.occupied + occupancyData.reserved
          IN  /\ sum <= Len(AggRows)
              /\ (sum = Len(AggRows)) <=>
                    (\A i \in DOMAIN AggRows : AggRows[i].status \in KnownStatuses)

C3_Witness ==
    /\ MapViewComputed
    /\ occupancyData.computed
    /\ \E i \in DOMAIN AggRows : AggRows[i].status \notin KnownStatuses
    /\ \E i \in DOMAIN AggRows : AggRows[i].status = "occupied"
    /\ occupancyData.free + occupancyData.occupied + occupancyData.reserved < Len(AggRows)

\* C4: with total capacity 0 or missing the occupancyPercentage is 0 whatever the
\* slot set contains.
C4_ZeroCapacity ==
    (MapViewComputed /\ (AggTotal = None \/ AggTotal = Some(0))) =>
        areaWithOccupancy.occupancyPercentage = Pct(0, 1)

C4_Witness ==
    /\ MapViewComputed
    /\ AggTotal = None
    /\ areaWithOccupancy.occupiedSlots > 0
    /\ areaWithOccupancy.reservedSlots > 0
    /\ PctEq(areaWithOccupancy.occupancyPercentage, 0)

\* 100 * (occupied + reserved), counted from the rows
Taken == 100 * NumWithStatus(AggRows, {"occupied", "reserved"})

\* C16: the marker's color is red when the percentage is above 80, amber when it
\* is above 50 and at most 80, green otherwise; exactly 80 is amber and exactly
\* 50 is green (the percentage being 0 without a positive total or on an error).
C16_MarkerColor ==
    /\ (occupancyColor # "" /\ (aggSlotsError \/ AggTotal = None \/ AggTotal[1] <= 0))
           => occupancyColor = Green
    /\ (occupancyColor # "" /\ ~aggSlotsError /\ AggTotal # None /\ AggTotal[1] > 0) =>
        /\ occupancyColor = Red <=> Taken > 80 * AggTotal[1]
        /\ occupancyColor = Amber <=>
               (Taken > 50 * AggTotal[1] /\ Taken <= 80 * AggTotal[1])
        /\ occupancyColor = Green <=> Taken <= 50 * AggTotal[1]
        /\ Taken = 80 * AggTotal[1] => occupancyColor = Amber
        /\ Taken = 50 * AggTotal[1] => occupancyColor = Green

\* Four of five slots taken: exactly 80, rendered amber
C16_Witness ==
    /\ occupancyColor = Amber
    /\ ~aggSlotsError
    /\ AggTotal = Some(5)
    /\ NumWithStatus(AggRows, {"occupied", "reserved"}) = 4

\* The reservations table holds a row of user u for slot s
HasRow(rows, u, s) == \E i \in DOMAIN rows : rows[i].user_id = u /\ rows[i].slot_id = s

\* C17: the slot update of a confirmation is issued only in the step in which
\* its insert returned without error, and it returns only with the row in the
\* table; the slot update of a cancellation is issued only in the step in
\* which its reservation update returned without error.
C17_WritesSequential ==
    [][\A u \in Users :
          /\ \A s \in SlotIds :
                /\ confirmCalls'[u][s].update > confirmCalls[u][s].update
                      => /\ confirmCalls[u][s].insert > 0
                         /\ reservations' = InsertReservation(u, s)
                /\ (\E ok \in BOOLEAN : ConfirmUpdateDone(u, s, ok))
                      => HasRow(reservations, u, s)
          /\ \A c \in cancelCalls'[u] :
                c.stage = "slot"
                    => /\ reservations'[c.id].status = "cancelled"
                       /\ c \notin cancelCalls[u]
                             => /\ [c EXCEPT !.stage = "reservation"] \in cancelCalls[u]
                                /\ reservations[c.id].status = "active"]_vars

\* A cancellation is at its second write: the reservation is cancelled, the
\* slot it was confirmed on is still reserved
C17_Witness ==
    \E c \in cancelCalls["u1"] :
        /\ c.stage = "slot"
        /\ reservations[c.id].status = "cancelled"
        /\ slotStatus[c.slot_id] = "reserved"

\* C19: when a confirmation completes, userReservations contains the slot and
\* the Dashboard's local record of the slot has status reserved.
C19_LocalSlotReserved ==
    [][\A s \in SlotIds :
          ConfirmUpdateDone("u1", s, TRUE)
              => /\ \E i \in DOMAIN userReservations'["u1"] :
                        userReservations'["u1"][i] = s
                 /\ \A i \in DOMAIN slots'["u1"] :
                        slots'["u1"][i].id = s => slots'["u1"][i].status = "reserved"]_vars

C28_LevelAgreesWithRecord ==
    /\ statusLevel = "healthy" => systemStatus # None /\ systemStatus[1].status = "online"
    /\ systemStatus = None => statusLevel = "critical"

\* The monitor of the named system shows a record just received as healthy
C28_Witness ==
    /\ monMounted
    /\ monSystemId # Undefined
    /\ systemStatus # None
    /\ systemStatus[1].system_id = TargetSystemId(monSystemId)
    /\ statusLevel = "healthy"
    /\ lastSeenText = Text("Just now", 0)

\* C22: a click on a slot shown as not free changes nothing of the workflow
\* (no dialog, no selection, no call, no write); a dialog opens only on a slot
\* that the local list holds with status free.
C22_NonFreeSelectIsNoOp ==
    [][/\ \A i \in DOMAIN slots["u1"] :
             ClickSlot("u1", i) /\ slots["u1"][i].status # "free"
                 => UNCHANGED <<dashVars, backendVars, profileVars>>
       /\ (reserveSlotId["u1"] = "" /\ reserveSlotId'["u1"] # "")
             => \E i \in DOMAIN slots["u1"] :
                    /\ slots["u1"][i].id = reserveSlotId'["u1"]
                    /\ slots["u1"][i].status = "free"
                    /\ selectedSlotNumber'["u1"] = slots["u1"][i].slot_number]_vars

\* The list shows s1 occupied and s2 free, and the dialog is open on s2
C22_Witness ==
    /\ slots["u1"] # << >>
    /\ slots["u1"][1].status = "occupied"
    /\ slots["u1"][2].status = "free"
    /\ reserveSlotId["u1"] = "s2"
    /\ selectedSlotNumber["u1"] = 2

\* C23: a slot whose status is occupied leaves that status only by a step of
\* the sensor, never by a write of the user interface.
C23_OccupiedNotOverwritten ==
    [][\A s \in SlotIds :
          (slotStatus[s] = "occupied" /\ slotStatus'[s] # "occupied") => Sensor(s)]_vars

\* C24: a slot whose status is none of free, occupied, reserved is counted in
\* none of the three counts and not in the percentage, in MapView and in the
\* Dashboard, whatever the declared total.
C24_UnknownStatusDropped ==
    /\ MapViewComputed =>
          /\ areaWithOccupancy.freeSlots = NumWithStatus(AggRows, {"free"})
          /\ areaWithOccupancy.occupiedSlots = NumWithStatus(AggRows, {"occupied"})
          /\ areaWithOccupancy.reservedSlots = NumWithStatus(AggRows, {"reserved"})
          /\ areaWithOccupancy.freeSlots + areaWithOccupancy.occupiedSlots
                 + areaWithOccupancy.reservedSlots
               = Len(AggRows) - NumWithStatus(AggRows, AnyStatuses \ KnownStatuses)
          /\ (AggTotal # None /\ AggTotal[1] > 0)
                => areaWithOccupancy.occupancyPercentage = Pct(Taken, AggTotal[1])
    /\ occupancyData.computed =>
          /\ occupancyData.free = NumWithStatus(AggRows, {"free"})
          /\ occupancyData.occupied = NumWithStatus(AggRows, {"occupied"})
          /\ occupancyData.reserved = NumWithStatus(AggRows, {"reserved"})

\* Three rows, two of them of no declared status: one free slot, nothing taken
C24_Witness ==
    /\ MapViewComputed
    /\ occupancyData.computed
    /\ Len(AggRows) = 3
    /\ NumWithStatus(AggRows, {"maintenance"}) = 1
    /\ NumWithStatus(AggRows, {"null"}) = 1
    /\ areaWithOccupancy.freeSlots = 1
    /\ occupancyData.occupied = 0
    /\ AggTotal = Some(3)
    /\ PctEq(areaWithOccupancy.occupancyPercentage, 0)

\* C25: a failed slots fetch of the Dashboard, a failed areas fetch of the
\* MapView and a failed reservations fetch of the Profile leave the local list
\* as it was and start no other fetch.
C25_FailedFetchKeepsList ==
    [][/\ \A a \in Areas :
             DashFetchDone(a, FALSE)
                 => dashSlots' = dashSlots /\ dashFetches' = dashFetches \ {a}
       /\ MapFetchDone("areasError")
             => /\ parkingAreasWithOccupancy' = parkingAreasWithOccupancy
                /\ mapFetches' = mapFetches - 1
       /\ ProfFetchDone(FALSE)
             => /\ profReservations' = profReservations
                /\ ~profFetching']_vars

\* The MapView still shows the areas of an earlier fetch after a failed one,
\* and the Dashboard the rows of a1 after the fetch for a2 failed
C25_Witness ==
    /\ mapMounted
    /\ parkingAreasWithOccupancy # << >>
    /\ mapFetches = 0
    /\ screenToast = "Failed to load parking areas"
    /\ selectedAreaId = "a2"
    /\ ShowsArea("a1")
    /\ dashFetches = {}

\* C30: in the mounted MapView, loading is false whenever no fetch is
\* outstanding, every fetch that returns (aggregated, no areas, a slots error,
\* a throw on the areas query) sets it to false, and a loading MapView
\* eventually shows loading false unless it is unmounted first.
C30_LoadingEventuallyFalse ==
    /\ [](mapMounted /\ mapFetches = 0 => ~mapLoading)
    /\ [][(\E o \in MapOutcomes : MapFetchDone(o)) => ~mapLoading']_vars
    /\ (mapMounted /\ mapLoading) ~> (~mapLoading \/ ~mapMounted)

\* The first fetch threw on the areas query: the list is empty, loading is false
C30_Witness ==
    /\ mapMounted
    /\ ~mapLoading
    /\ mapFetches = 0
    /\ parkingAreasWithOccupancy = << >>
    /\ screenToast = "Failed to load parking areas"

\* C26: a reservation insert for a slot is issued only when the user has no
\* confirmation of that slot in flight, and userReservations never holds a
\* slot twice.
C26_NoSecondInsert ==
    [][\A s \in SlotIds :
          /\ confirmCalls'["u1"][s].insert > confirmCalls["u1"][s].insert
                => confirmCalls["u1"][s].insert + confirmCalls["u1"][s].update = 0
          /\ Cardinality({i \in DOMAIN userReservations'["u1"] :
                             userReservations'["u1"][i] = s}) <= 1]_vars

C29_CancelChangesOneRow ==
    [][\A c \in cancelCalls["u1"] :
          (\E ok \in BOOLEAN : CancelSlotDone("u1", c, ok)) =>
              LET old == profileReservations["u1"]
                  new == profileReservations'["u1"]
              IN  /\ Len(new) = Len(old)
                  /\ \A i \in DOMAIN old : old[i].id # c.id => new[i] = old[i]
                  /\ \A i \in DOMAIN old : old[i].id = c.id =>
                         new[i] = [old[i] EXCEPT !.status = "cancelled"]
                  /\ \E i \in DOMAIN old : old[i].id = c.id /\ old[i].status = "active"
                  /\ Len(ActiveReservations(new)) = Len(ActiveReservations(old)) - 1
                  /\ Len(PastReservations(new)) = Len(PastReservations(old)) + 1]_vars

\* A cancellation has just completed in a Profile list of two rows, the other
\* row still active
C29_Witness ==
    /\ toast = Show("u1", "Reservation cancelled successfully")
    /\ Len(profileReservations["u1"]) = 2
    /\ Len(ActiveReservations(profileReservations["u1"])) = 1
    /\ Len(PastReservations(profileReservations["u1"])) = 1

====
